---- MODULE Spec2Model ----
(***************************************************************************)
(* Client-side multiplayer synchronisation layer of ChronoClash:           *)
(*   - SocketService          (src/lib/socket-service.ts, lines 86-378)    *)
(*   - MultiplayerProvider    (src/components/multiplayer-context-provider) *)
(*   - JoinRoom / CreateRoom screens (src/unnamed/part_000, part_001)      *)
(*                                                                         *)
(* Every handler that setupSocketListeners registers is a closure over the *)
(* render in which connect() was called: it reads that render's            *)
(* currentRoom and playerId, while the functional updates                  *)
(* setCurrentRoom(prev => ...) read the live state.  The model keeps the   *)
(* captured values with every registered listener set.                     *)
(***************************************************************************)
EXTENDS Integers, Sequences, FiniteSets, TLC

NULL == "null"

\* ---------------------------------------------------------------- bounds
MaxCalls    == 2      \* controller connect() calls in one behaviour
MaxVer      == 2      \* distinct payload contents per directory room id
MaxInflight == 2      \* unanswered requests of one kind
MaxLine     == 24     \* battle-log lines the server produces
MaxNewLines == 3      \* lines carried by one game_action_performed
MaxLog      == 22     \* battle-log length up to which game_over is delivered
MaxTimers   == 2      \* screen timeouts armed and not yet fired
MaxOvers    == 2      \* game_over events the server sends to one room
MaxTurn     == 2      \* highest turnCount a game_action_performed carries
MaxWired    == 2      \* listeners of the event on one socket

\* ------------------------------------------------------ program constants
maxReconnectAttempts == 5
LogCap == 20
maxPlayers == 2

\* ------------------------------------------------------------ input sets
Players   == {"P1", "P2", "P3"}
ClientIds == {"P1", "P3"}          \* ids the server hands to this client
RoomIds   == {"R1", "R2"}
Reasons   == {"transport close", "io server disconnect"}
ReqKinds  == {"create_room", "join_room", "leave_room", "select_character",
              "player_ready", "game_action", "chat_message"}

NameOf(p) ==
  CASE p = "P1" -> "Ann" [] p = "P2" -> "Bob" [] p = "P3" -> "Cyd" [] OTHER -> NULL

VARIABLES
  \* SocketService
  socket,            \* this.socket: 0 = null, else index into calls
  svcPlayerId,       \* this.playerId
  reconnectAttempts, \* this.reconnectAttempts
  calls,             \* one record per controller connect() call / io() socket
  \* MultiplayerProvider state
  isConnected, isConnecting, connectionError, playerId, isHost,
  currentRoom, availableRooms,
  \* requests emitted on the transport and not yet answered
  inflight,
  \* JoinRoom / CreateRoom screens
  joining, joinError, joinTimers, creating, createError, createTimers, roomId,
  \* number of the last battle-log line the server has produced
  srvLine,
  \* the operation or event handled last
  lastOp,
  \* listeners of one application event that SocketService.on put on each
  \* io() socket (socket-service.ts 211), in registration order
  wrappers,
  \* handlers passed to SocketService.on while the socket was not connected
  pending,
  \* the SocketService of socket-service.ts 1095-1271: its socket, its
  \* listeners Map entry for the event, the listeners on its socket
  svc2,
  \* the last delivery of the event: handlers invoked, in order, and whether
  \* an exception left the dispatcher
  delivery

svcVars  == <<socket, svcPlayerId, reconnectAttempts, calls>>
ctlVars  == <<isConnected, isConnecting, connectionError, playerId, isHost,
              currentRoom, availableRooms>>
uiVars   == <<joining, joinError, joinTimers, creating, createError,
              createTimers, roomId>>
busVars  == <<wrappers, pending, svc2, delivery>>
vars == <<socket, svcPlayerId, reconnectAttempts, calls,
          isConnected, isConnecting, connectionError, playerId, isHost,
          currentRoom, availableRooms, inflight,
          joining, joinError, joinTimers, creating, createError, createTimers,
          roomId, srvLine, lastOp, wrappers, pending, svc2, delivery>>

\* ------------------------------------------------------------- RoomData
GameData(tc, ct, log, st, et, w) ==
  [turnCount |-> tc, currentTurn |-> ct, battleLog |-> log,
   startTime |-> st, endTime |-> et, winner |-> w]

RoomData(id, h, hc, g, gc, st, ps, gd) ==
  [id |-> id, hostId |-> h, hostName |-> NameOf(h), hostCharacter |-> hc,
   guestId |-> g, guestName |-> NameOf(g), guestCharacter |-> gc,
   status |-> st, players |-> ps, maxPlayers |-> maxPlayers, gameData |-> gd]

\* currentRoom = null
NoRoom == RoomData(NULL, NULL, NULL, NULL, NULL, NULL, <<>>,
                   GameData(0, NULL, <<>>, NULL, NULL, NULL))

Includes(s, x) == \E i \in 1..Len(s) : s[i] = x

\* a call of a public operation or screen handler, or a timer firing
NoEntry == [id |-> NULL, ver |-> 0]
Op(name, arg, emitted, threw) ==
  [op |-> name, arg |-> arg, emitted |-> emitted, threw |-> threw, heard |-> 0,
   lines |-> 0, data |-> NoEntry, svc |-> "none"]
\* a call that reached a SocketService operation, with what that did:
\* "emit", "error" (a window error event) or "skip" (logged, returned)
OpS(name, arg, res, threw) ==
  [Op(name, arg, res = "emit", threw) EXCEPT !.svc = res]
\* an inbound event delivered to `heard` registered listener sets
Ev(name, arg, heard) ==
  [op |-> name, arg |-> arg, emitted |-> FALSE, threw |-> FALSE, heard |-> heard,
   lines |-> 0, data |-> NoEntry, svc |-> "none"]

\* ------------------------------------------------------- SocketService
\* isConnected(): this.socket?.connected || false
SvcIsConnected == socket # 0 /\ calls[socket].sock = "connected"

\* one controller connect() call; sock is the io() socket it created
\* ("none" when the call took the already-connected path)
Call(sock, pc, room, pid, thenJoin) ==
  [sock |-> sock, sid |-> NULL, retries |-> 0,
   promise |-> IF sock = "none" THEN "none" ELSE "pending",
   timer |-> IF sock = "none" THEN "none" ELSE "armed",
   pc |-> pc, capRoom |-> room, capPid |-> pid, thenJoin |-> thenJoin,
   listeners |-> <<>>]

ZeroInflight == [k \in ReqKinds |-> 0]

\* nothing delivered yet
NoDelivery == [invoked |-> <<>>, escaped |-> FALSE]

Trim(s) == IF s = " " THEN "" ELSE s

\* a joinRoom without the `!roomId.trim()` check of lines 273-276
SvcJoinRoomUnchecked(conn, rid) == IF ~conn THEN "error" ELSE "emit"

\* SocketService.joinRoom: what a call does given the socket's state
SvcJoinRoom(conn, rid) ==
  IF ~conn THEN "error"
  ELSE IF Trim(rid) = "" THEN "error"
  ELSE "emit"

\* a createRoom that emits without looking at the socket
SvcCreateRoomAlways(conn) == "emit"

\* SocketService.createRoom, lines 236-249
SvcCreateRoom(conn) == IF ~conn THEN "error" ELSE "emit"

\* SocketService.leaveRoom, lines 284-291
SvcLeaveRoom(conn, rid) == IF ~conn \/ rid = "" THEN "skip" ELSE "emit"

\* SocketService.selectCharacter, lines 296-308
SvcSelectCharacter(conn, ch) ==
  IF ~conn THEN "skip"
  ELSE IF ch = NULL THEN "skip"
  ELSE "emit"

\* SocketService.setPlayerReady, lines 313-320
SvcSetPlayerReady(conn) == IF ~conn THEN "skip" ELSE "emit"

\* SocketService.performGameAction, lines 325-332
SvcPerformGameAction(conn) == IF ~conn THEN "skip" ELSE "emit"

\* SocketService.sendChatMessage, lines 337-344
SvcSendChatMessage(conn, rid, msg) ==
  IF ~conn \/ rid = "" \/ Trim(msg) = "" THEN "skip" ELSE "emit"

\* the listener set one setupSocketListeners() call registers: the closure
\* of the render whose connect() is running
Closure(c) == [room |-> c.capRoom, pid |-> c.capPid]

\* SocketService.on: registers on this.socket, or warns and returns
SvcOn(cs, sk, cl) ==
  IF sk = 0 THEN cs
  ELSE [cs EXCEPT ![sk].listeners = Append(@, cl)]

\* room directory --------------------------------------------------------
IndexOf(rooms, id) ==
  IF \E i \in 1..Len(rooms) : rooms[i].id = id
    THEN CHOOSE i \in 1..Len(rooms) :
           /\ rooms[i].id = id
           /\ \A j \in 1..(i-1) : rooms[j].id # id
    ELSE 0

\* a directory that appends every payload without looking the id up
UpsertRoomAppend(prev, data) == Append(prev, data)

\* room_available handler, lines 227-240 (findIndex, replace or append)
UpsertRoom(prev, data) ==
  IF IndexOf(prev, data.id) > 0
    THEN [prev EXCEPT ![IndexOf(prev, data.id)] = data]
    ELSE Append(prev, data)

\* room_unavailable handler, lines 246-248
RemoveRoom(prev, rid) == SelectSeq(prev, LAMBDA room : room.id # rid)

\* one delivery runs every registered listener set, in registration order;
\* H(cl, prev) is one handler applied with its closure cl to the live state
Deliver(ls, H(_, _), x) ==
  LET f[k \in 0..Len(ls)] == IF k = 0 THEN x ELSE H(ls[k], f[k - 1])
  IN f[Len(ls)]

DirEntries == [id : RoomIds, ver : 1..MaxVer]

\* ------------------------------------------------------------------ Init
Init ==
  /\ socket = 0
  /\ svcPlayerId = NULL
  /\ reconnectAttempts = 0
  /\ calls = <<>>
  /\ isConnected = FALSE
  /\ isConnecting = FALSE
  /\ connectionError = NULL
  /\ playerId = NULL
  /\ isHost = FALSE
  /\ currentRoom = NoRoom
  /\ availableRooms = <<>>
  /\ inflight = ZeroInflight
  /\ joining = FALSE
  /\ joinError = NULL
  /\ joinTimers = <<>>
  /\ creating = FALSE
  /\ createError = NULL
  /\ createTimers = <<>>
  /\ roomId = ""
  /\ srvLine = 0
  /\ lastOp = Op("init", NULL, FALSE, FALSE)
  /\ wrappers = [i \in 1..MaxCalls |-> <<>>]
  /\ pending = {}
  /\ svc2 = [socket |-> "null", listeners |-> <<>>, wired |-> 0, pending |-> {}]
  /\ delivery = NoDelivery

SvcConn(cs, sk) == sk # 0 /\ cs[sk].sock = "connected"

\* window 'join_room_error' -> JoinRoom screen's handleJoinError;
\* socket.emit('join_room') -> one more request in flight
JoinEffects(res, joiningNow) ==
  /\ res = "emit" => inflight["join_room"] < MaxInflight
  /\ inflight' = IF res = "emit"
                   THEN [inflight EXCEPT !["join_room"] = @ + 1]
                   ELSE inflight
  /\ joining' = IF res = "error" THEN FALSE ELSE joiningNow
  /\ joinError' = IF res = "error" THEN "error"
                  ELSE IF joiningNow # joining THEN NULL ELSE joinError

\* joinRoom's connect().then(() => socketService.joinRoom(roomId)) once the
\* controller connect() of call c has returned
ThenJoin(c, conn) ==
  IF c.thenJoin = NULL THEN "none" ELSE SvcJoinRoom(conn, c.thenJoin)

\* the promise of call i rejects: controller connect() catch + finally
Rejected(i, cs) ==
  IF cs[i].promise = "pending"
    THEN /\ calls' = [cs EXCEPT ![i].promise = "rejected", ![i].pc = "done"]
         /\ connectionError' = "failed"
         /\ isConnecting' = FALSE
         /\ JoinEffects(ThenJoin(cs[i], SvcConn(cs, socket)), joining)
    ELSE /\ calls' = cs
         /\ UNCHANGED <<connectionError, isConnecting, inflight, joining, joinError>>

\* controller connect(), lines 386-403: up to the first await
ConnectCall(thenJoin) ==
  /\ Len(calls) < MaxCalls
  /\ isConnecting' = TRUE
  /\ connectionError' = NULL
  /\ IF SvcIsConnected
       THEN /\ isConnected' = TRUE
            /\ playerId' = svcPlayerId
            /\ calls' = Append(calls, Call("none", "awaitRooms", currentRoom, playerId, thenJoin))
            /\ UNCHANGED socket
       ELSE /\ calls' = Append(calls, Call("connecting", "awaitConnect", currentRoom, playerId, thenJoin))
            /\ socket' = Len(calls) + 1
            /\ UNCHANGED <<isConnected, playerId>>
  /\ UNCHANGED <<svcPlayerId, reconnectAttempts, isHost, currentRoom, availableRooms>>

Connect ==
  /\ ConnectCall(NULL)
  /\ lastOp' = Op("connect", NULL, FALSE, FALSE)
  /\ UNCHANGED <<busVars, inflight, uiVars, srvLine>>

\* socket 'connect' event, lines 123-129
SockConnect(i, s) ==
  /\ calls[i].sock \in {"connecting", "reconnecting"}
  /\ calls' = [calls EXCEPT ![i].sock = "connected", ![i].sid = s, ![i].retries = 0]
  /\ reconnectAttempts' = 0
  /\ svcPlayerId' = IF socket # 0 /\ calls'[socket].sid # NULL
                      THEN calls'[socket].sid ELSE svcPlayerId
  /\ lastOp' = Op("sock_connect", s, FALSE, FALSE)
  /\ UNCHANGED <<busVars, socket, ctlVars, inflight, uiVars, srvLine>>

\* 'connection_success' event, lines 131-140, and the continuation of the
\* controller connect() awaiting it, lines 403-408
ConnectionSuccess(i, p) ==
  /\ calls[i].sock = "connected"
  /\ p \in {calls[i].sid, NULL}
  /\ lastOp' = Op("connection_success", p, FALSE, FALSE)
  /\ IF p # NULL
       THEN /\ svcPlayerId' = p
            /\ IF calls[i].promise = "pending"
                 THEN /\ calls' = SvcOn([calls EXCEPT ![i].promise = "resolved",
                                                      ![i].pc = "awaitRooms"],
                                        socket, Closure(calls[i]))
                      /\ playerId' = p
                      /\ isConnected' = TRUE
                 ELSE UNCHANGED <<calls, playerId, isConnected>>
            /\ UNCHANGED <<connectionError, isConnecting, inflight, joining, joinError>>
       ELSE /\ Rejected(i, calls)
            /\ UNCHANGED <<svcPlayerId, playerId, isConnected>>
  /\ UNCHANGED <<busVars, socket, reconnectAttempts, isHost, currentRoom, availableRooms,
                 joinTimers, creating, createError, createTimers, roomId, srvLine>>

\* 'connect_error' event, lines 142-149
ConnectError(i) ==
  /\ calls[i].sock \in {"connecting", "reconnecting"}
  /\ reconnectAttempts' = reconnectAttempts + 1
  /\ LET c  == calls[i]
         gaveUp == c.sock = "reconnecting" /\ c.retries + 1 >= maxReconnectAttempts
         cs == [calls EXCEPT ![i].sock = IF gaveUp THEN "dead" ELSE "reconnecting",
                             ![i].retries = IF c.sock = "connecting" THEN 0 ELSE @ + 1]
     IN IF reconnectAttempts' >= maxReconnectAttempts
          THEN Rejected(i, cs)
          ELSE /\ calls' = cs
               /\ UNCHANGED <<connectionError, isConnecting, inflight, joining, joinError>>
  /\ lastOp' = Op("connect_error", NULL, FALSE, FALSE)
  /\ UNCHANGED <<busVars, socket, svcPlayerId, isConnected, playerId, isHost, currentRoom,
                 availableRooms, joinTimers, creating, createError, createTimers, roomId, srvLine>>

\* 'disconnect' event, lines 151-158; socket.io retries on its own unless
\* the server closed the socket
SockDisconnect(i, reason) ==
  /\ calls[i].sock = "connected"
  /\ LET manual == reason = "io server disconnect" /\ socket # 0
         cs == [calls EXCEPT ![i].sid = NULL, ![i].retries = 0,
                             ![i].sock = IF reason = "io server disconnect"
                                           THEN "dead" ELSE "reconnecting"]
     IN calls' = IF manual /\ cs[socket].sock = "dead"
                   THEN [cs EXCEPT ![socket].sock = "reconnecting", ![socket].retries = 0]
                   ELSE cs
  /\ inflight' = IF i = socket THEN ZeroInflight ELSE inflight
  /\ lastOp' = Op("sock_disconnect", reason, FALSE, FALSE)
  /\ UNCHANGED <<busVars, socket, svcPlayerId, reconnectAttempts, ctlVars, uiVars, srvLine>>

\* the connection timeout of call i fires, lines 161-166
ConnectTimeout(i) ==
  /\ calls[i].timer = "armed"
  /\ LET cs == [calls EXCEPT ![i].timer = "fired"]
     IN IF ~SvcIsConnected
          THEN Rejected(i, cs)
          ELSE /\ calls' = cs
               /\ UNCHANGED <<connectionError, isConnecting, inflight, joining, joinError>>
  /\ lastOp' = Op("connect_timeout", NULL, FALSE, FALSE)
  /\ UNCHANGED <<busVars, socket, svcPlayerId, reconnectAttempts, isConnected, playerId, isHost,
                 currentRoom, availableRooms, joinTimers, creating, createError,
                 createTimers, roomId, srvLine>>

\* getAvailableRooms() returns, lines 396-399 / 411-412, then finally
RoomsFetched(i, rooms) ==
  /\ calls[i].pc = "awaitRooms"
  /\ availableRooms' = rooms
  /\ isConnecting' = FALSE
  /\ calls' = [calls EXCEPT ![i].pc = "done"]
  /\ JoinEffects(ThenJoin(calls[i], SvcIsConnected), joining)
  /\ lastOp' = Op("rooms_fetched", NULL, FALSE, FALSE)
  /\ UNCHANGED <<busVars, socket, svcPlayerId, reconnectAttempts, isConnected, connectionError,
                 playerId, isHost, currentRoom, joinTimers, creating, createError,
                 createTimers, roomId, srvLine>>

\* SocketService.disconnect, lines 178-185
SvcDisconnect ==
  IF socket # 0
    THEN /\ calls' = [calls EXCEPT ![socket].sock = "closed", ![socket].sid = NULL]
         /\ socket' = 0
         /\ svcPlayerId' = NULL
    ELSE UNCHANGED <<calls, socket, svcPlayerId>>

\* controller disconnect(), lines 423-429
Disconnect ==
  /\ SvcDisconnect
  /\ isConnected' = FALSE
  /\ playerId' = NULL
  /\ currentRoom' = NoRoom
  /\ availableRooms' = <<>>
  /\ inflight' = ZeroInflight
  /\ lastOp' = Op("disconnect", NULL, FALSE, FALSE)
  /\ UNCHANGED <<busVars, reconnectAttempts, isConnecting, connectionError, isHost, uiVars, srvLine>>

\* ------------------------------------------------------- room directory
\* 'room_available' delivered on socket i
RoomAvailable(i, data) ==
  /\ calls[i].sock = "connected"
  /\ availableRooms' = Deliver(calls[i].listeners,
                               LAMBDA cl, prev : UpsertRoom(prev, data), availableRooms)
  /\ lastOp' = [Ev("room_available", data.id, Len(calls[i].listeners)) EXCEPT !.data = data]
  /\ UNCHANGED <<busVars, svcVars, isConnected, isConnecting, connectionError, playerId, isHost,
                 currentRoom, inflight, uiVars, srvLine>>

\* 'room_unavailable' delivered on socket i
RoomUnavailable(i, rid) ==
  /\ calls[i].sock = "connected"
  /\ availableRooms' = Deliver(calls[i].listeners,
                               LAMBDA cl, prev : RemoveRoom(prev, rid), availableRooms)
  /\ lastOp' = Ev("room_unavailable", rid, Len(calls[i].listeners))
  /\ UNCHANGED <<busVars, svcVars, isConnected, isConnecting, connectionError, playerId, isHost,
                 currentRoom, inflight, uiVars, srvLine>>

Calls == 1..Len(calls)

\* -------------------------------------------------- session event handlers
\* Each handler H(cl, prev, data) is one registered callback: cl holds the
\* currentRoom and playerId of the render that registered it (what the
\* `if (currentRoom ...)` guards read), prev is the live currentRoom that
\* the functional update setCurrentRoom(prev => ...) receives.

\* Array.prototype.slice(-n)
LastN(s, n) == IF Len(s) <= n THEN s ELSE SubSeq(s, Len(s) - n + 1, Len(s))

\* `${data.winnerName} wins the battle!`; the lines of actions are 1, 2, ...
\* and "Battle begins!" is line 0
WinsLine(name) ==
  CASE name = "Ann" -> 101 [] name = "Bob" -> 102 [] name = "Cyd" -> 103 [] OTHER -> 100

\* 'player_joined', lines 142-171
PlayerJoinedH(cl, prev, data) ==
  IF cl.room # NoRoom /\ data.roomId = cl.room.id
    THEN IF prev = NoRoom THEN NoRoom
         ELSE LET newGuest == prev.guestId = NULL /\ data.player # prev.hostId
              IN [prev EXCEPT
                    !.players = IF Includes(@, data.player) THEN @ ELSE Append(@, data.player),
                    !.guestId = IF newGuest THEN data.player ELSE @,
                    !.guestName = IF newGuest THEN NameOf(data.player) ELSE @]
    ELSE prev

\* 'player_left', lines 177-207
PlayerLeftH(cl, prev, data) ==
  IF cl.room # NoRoom /\ Includes(cl.room.players, data.playerId)
    THEN IF prev = NoRoom THEN NoRoom
         ELSE LET guestLeft == prev.guestId = data.playerId
              IN [prev EXCEPT
                    !.players = SelectSeq(@, LAMBDA id : id # data.playerId),
                    !.guestId = IF guestLeft THEN NULL ELSE @,
                    !.guestName = IF guestLeft THEN NULL ELSE @,
                    !.guestCharacter = IF guestLeft THEN NULL ELSE @]
    ELSE prev

\* 'room_updated', lines 214-221
RoomUpdatedH(cl, prev, data) ==
  IF cl.room # NoRoom /\ data.room.id = cl.room.id THEN data.room ELSE prev

\* 'character_selected', lines 252-268
CharacterSelectedH(cl, prev, data) ==
  IF cl.room # NoRoom
    THEN IF prev = NoRoom THEN NoRoom
         ELSE IF data.playerId = prev.hostId
                THEN [prev EXCEPT !.hostCharacter = data.character]
         ELSE IF data.playerId = prev.guestId
                THEN [prev EXCEPT !.guestCharacter = data.character]
         ELSE prev
    ELSE prev

\* 'game_started', lines 296-302
GameStartedH(cl, prev, data) ==
  IF cl.room # NoRoom /\ data.room.id = cl.room.id THEN data.room ELSE prev

\* a game_action_performed that replaces gameData with what the event
\* carries instead of spreading the previous gameData
GameActionPerformedReplace(cl, prev, data) ==
  IF cl.room # NoRoom /\ data.hasGameData
    THEN IF prev = NoRoom THEN NoRoom
         ELSE [prev EXCEPT
                 !.gameData = GameData(data.turnCount, data.currentTurn,
                                       LastN(@.battleLog \o data.battleLog, LogCap),
                                       NULL, NULL, NULL)]
    ELSE prev

\* 'game_action_performed', lines 308-329
GameActionPerformedH(cl, prev, data) ==
  IF cl.room # NoRoom /\ data.hasGameData
    THEN IF prev = NoRoom THEN NoRoom
         ELSE [prev EXCEPT
                 !.gameData.turnCount = data.turnCount,
                 !.gameData.currentTurn = data.currentTurn,
                 !.gameData.battleLog = LastN(@ \o data.battleLog, LogCap)]
    ELSE prev

\* 'game_over', lines 352-374
GameOverH(cl, prev, data) ==
  IF cl.room # NoRoom
    THEN IF prev = NoRoom THEN NoRoom
         ELSE [prev EXCEPT
                 !.status = "completed",
                 !.gameData.winner = data.winnerId,
                 !.gameData.endTime = "now",
                 !.gameData.battleLog = Append(@, WinsLine(data.winnerName))]
    ELSE prev

\* ------------------------------------------------------- server payloads
ZeroGame == GameData(0, NULL, <<>>, NULL, NULL, NULL)
NewRoom(r, h) == RoomData(r, h, NULL, NULL, NULL, "waiting", <<h>>, ZeroGame)
JoinedRoom(r, h, g) == RoomData(r, h, NULL, g, NULL, "waiting", <<h, g>>, ZeroGame)
StartedRoom(r, h, g) ==
  RoomData(r, h, "mage", g, "mage", "in-progress", <<h, g>>,
           GameData(0, h, <<0>>, "t0", NULL, NULL))
Lines(from, k) == [j \in 1..k |-> from + j]

Answer(k) == [inflight EXCEPT ![k] = IF @ > 0 THEN @ - 1 ELSE 0]
Listeners(i) == calls[i].listeners
Heard(i) == Len(calls[i].listeners) > 0

\* an inbound event on socket i that only touches currentRoom
RoomEventN(i, name, arg, n, room) ==
  /\ calls[i].sock = "connected"
  /\ currentRoom' = room
  /\ lastOp' = [Ev(name, arg, Len(calls[i].listeners)) EXCEPT !.lines = n]
  /\ UNCHANGED <<busVars, svcVars, isConnected, isConnecting, connectionError, playerId, isHost,
                 availableRooms, uiVars>>
RoomEvent(i, name, arg, room) == RoomEventN(i, name, arg, 0, room)

\* 'room_created' answers create_room, lines 94-107; the CreateRoom screen
\* hears the window event (part_001 lines 41-53)
RoomCreated(i, r) ==
  /\ i = socket /\ calls[i].sock = "connected" /\ calls[i].sid # NULL
  /\ inflight["create_room"] > 0
  /\ inflight' = Answer("create_room")
  /\ IF Heard(i)
       THEN /\ currentRoom' = NewRoom(r, calls[i].sid)
            /\ isHost' = TRUE
            /\ roomId' = r
       ELSE UNCHANGED <<currentRoom, isHost, roomId>>
  /\ lastOp' = Ev("room_created", r, Len(calls[i].listeners))
  /\ UNCHANGED <<busVars, svcVars, isConnected, isConnecting, connectionError, playerId,
                 availableRooms, joining, joinError, joinTimers, creating, createError,
                 createTimers, srvLine>>

\* 'create_room_error', lines 109-115, and part_001 lines 55-59
CreateRoomError(i) ==
  /\ i = socket /\ calls[i].sock = "connected"
  /\ inflight["create_room"] > 0
  /\ inflight' = Answer("create_room")
  /\ creating' = IF Heard(i) THEN FALSE ELSE creating
  /\ createError' = IF Heard(i) THEN "error" ELSE createError
  /\ lastOp' = Ev("create_room_error", NULL, Len(calls[i].listeners))
  /\ UNCHANGED <<busVars, svcVars, ctlVars, joining, joinError, joinTimers, createTimers,
                 roomId, srvLine>>

\* 'room_joined' answers join_room, lines 118-131; the JoinRoom screen
\* hears the window event (part_000 lines 37-41)
RoomJoined(i, r, h) ==
  /\ i = socket /\ calls[i].sock = "connected" /\ calls[i].sid # NULL
  /\ h # calls[i].sid
  /\ inflight["join_room"] > 0
  /\ inflight' = Answer("join_room")
  /\ IF Heard(i)
       THEN /\ currentRoom' = JoinedRoom(r, h, calls[i].sid)
            /\ isHost' = (h = Listeners(i)[Len(Listeners(i))].pid)
            /\ joining' = FALSE
       ELSE UNCHANGED <<currentRoom, isHost, joining>>
  /\ lastOp' = Ev("room_joined", r, Len(calls[i].listeners))
  /\ UNCHANGED <<busVars, svcVars, isConnected, isConnecting, connectionError, playerId,
                 availableRooms, joinError, joinTimers, creating, createError,
                 createTimers, roomId, srvLine>>

\* 'join_room_error', lines 133-139, and part_000 lines 43-47
JoinRoomError(i) ==
  /\ i = socket /\ calls[i].sock = "connected"
  /\ inflight["join_room"] > 0
  /\ inflight' = Answer("join_room")
  /\ joining' = IF Heard(i) THEN FALSE ELSE joining
  /\ joinError' = IF Heard(i) THEN "error" ELSE joinError
  /\ lastOp' = Ev("join_room_error", NULL, Len(calls[i].listeners))
  /\ UNCHANGED <<busVars, svcVars, ctlVars, joinTimers, creating, createError, createTimers,
                 roomId, srvLine>>

PlayerJoined(i, r, p) ==
  /\ RoomEvent(i, "player_joined", p,
       Deliver(Listeners(i),
               LAMBDA cl, prev : PlayerJoinedH(cl, prev, [roomId |-> r, player |-> p]),
               currentRoom))
  /\ UNCHANGED <<inflight, srvLine>>

PlayerLeft(i, p) ==
  /\ RoomEvent(i, "player_left", p,
       Deliver(Listeners(i),
               LAMBDA cl, prev : PlayerLeftH(cl, prev, [playerId |-> p]),
               currentRoom))
  /\ UNCHANGED <<inflight, srvLine>>

RoomUpdated(i, room) ==
  /\ RoomEvent(i, "room_updated", room.id,
       Deliver(Listeners(i),
               LAMBDA cl, prev : RoomUpdatedH(cl, prev, [room |-> room]),
               currentRoom))
  /\ UNCHANGED <<inflight, srvLine>>

\* 'character_selected'; for the local player it answers select_character
CharacterSelected(i, p, ch) ==
  /\ RoomEvent(i, "character_selected", p,
       Deliver(Listeners(i),
               LAMBDA cl, prev : CharacterSelectedH(cl, prev, [playerId |-> p, character |-> ch]),
               currentRoom))
  /\ inflight' = IF i = socket /\ p = calls[i].sid THEN Answer("select_character") ELSE inflight
  /\ UNCHANGED srvLine

\* 'player_ready_updated', lines 275-286: only a sound; it answers player_ready
PlayerReadyUpdated(i, p) ==
  /\ RoomEvent(i, "player_ready_updated", p, currentRoom)
  /\ inflight' = IF i = socket /\ p = calls[i].sid THEN Answer("player_ready") ELSE inflight
  /\ UNCHANGED srvLine

GameStarted(i, room) ==
  /\ RoomEvent(i, "game_started", room.id,
       Deliver(Listeners(i),
               LAMBDA cl, prev : GameStartedH(cl, prev, [room |-> room]),
               currentRoom))
  /\ UNCHANGED <<inflight, srvLine>>

\* 'game_action_performed' carrying the k next lines of the server's log
GameActionPerformed(i, tc, ct, k) ==
  /\ srvLine + k <= MaxLine
  /\ srvLine' = srvLine + k
  /\ RoomEventN(i, "game_action_performed", ct, k,
       Deliver(Listeners(i),
               LAMBDA cl, prev : GameActionPerformedH(cl, prev,
                   [hasGameData |-> TRUE, turnCount |-> tc, currentTurn |-> ct,
                    battleLog |-> Lines(srvLine, k)]),
               currentRoom))
  /\ inflight' = IF i = socket THEN Answer("game_action") ELSE inflight

GameOver(i, w) ==
  /\ Len(currentRoom.gameData.battleLog) < MaxLog
  /\ RoomEvent(i, "game_over", w,
       Deliver(Listeners(i),
               LAMBDA cl, prev : GameOverH(cl, prev, [winnerId |-> w, winnerName |-> NameOf(w)]),
               currentRoom))
  /\ UNCHANGED <<inflight, srvLine>>

\* ------------------------------------------------- controller operations
Emit(k, yes) ==
  /\ yes => inflight[k] < MaxInflight
  /\ inflight' = IF yes THEN [inflight EXCEPT ![k] = @ + 1] ELSE inflight

\* controller joinRoom, lines 464-478
JoinRoomBody(rid, joiningNow) ==
  IF ~isConnected
    THEN /\ ConnectCall(rid)
         /\ joining' = joiningNow
         /\ joinError' = IF joiningNow # joining THEN NULL ELSE joinError
         /\ UNCHANGED inflight
    ELSE /\ JoinEffects(SvcJoinRoom(SvcIsConnected, rid), joiningNow)
         /\ UNCHANGED <<svcVars, ctlVars>>

JoinEmits(rid) == isConnected /\ SvcJoinRoom(SvcIsConnected, rid) = "emit"

JoinRoom(rid) ==
  /\ JoinRoomBody(rid, joining)
  /\ lastOp' = IF isConnected
                 THEN OpS("joinRoom", rid, SvcJoinRoom(SvcIsConnected, rid), FALSE)
                 ELSE Op("joinRoom", rid, FALSE, FALSE)
  /\ UNCHANGED <<busVars, joinTimers, creating, createError, createTimers, roomId, srvLine>>

\* controller createRoom, lines 432-451, with SocketService.createRoom,
\* lines 236-249
CreateResult ==
  IF ~isConnected THEN "threw" ELSE SvcCreateRoom(SvcIsConnected)

CreateRoom ==
  /\ Emit("create_room", CreateResult = "emit")
  /\ creating' = IF CreateResult = "error" THEN FALSE ELSE creating
  /\ createError' = IF CreateResult = "error" THEN "error" ELSE createError
  /\ lastOp' = IF CreateResult = "threw"
                 THEN Op("createRoom", NULL, FALSE, TRUE)
                 ELSE OpS("createRoom", NULL, CreateResult, FALSE)
  /\ UNCHANGED <<busVars, svcVars, ctlVars, joining, joinError, joinTimers, createTimers,
                 roomId, srvLine>>

\* controller leaveRoom, lines 481-486, with SocketService.leaveRoom
LeaveRoom ==
  LET act == currentRoom # NoRoom /\ isConnected
      res == IF act THEN SvcLeaveRoom(SvcIsConnected, currentRoom.id) ELSE "none"
  IN /\ Emit("leave_room", res = "emit")
     /\ currentRoom' = IF act THEN NoRoom ELSE currentRoom
     /\ lastOp' = OpS("leaveRoom", NULL, res, FALSE)
     /\ UNCHANGED <<busVars, svcVars, isConnected, isConnecting, connectionError, playerId,
                    isHost, availableRooms, uiVars, srvLine>>

\* controller selectCharacter, lines 489-504, with SocketService.selectCharacter
SelectCharacter(ch) ==
  LET act == currentRoom # NoRoom /\ isConnected
      res == IF act THEN SvcSelectCharacter(SvcIsConnected, ch) ELSE "none"
  IN /\ Emit("select_character", res = "emit")
     /\ currentRoom' = IF ~act THEN currentRoom
                       ELSE IF isHost THEN [currentRoom EXCEPT !.hostCharacter = ch]
                       ELSE [currentRoom EXCEPT !.guestCharacter = ch]
     /\ lastOp' = OpS("selectCharacter", ch, res, FALSE)
     /\ UNCHANGED <<busVars, svcVars, isConnected, isConnecting, connectionError, playerId,
                    isHost, availableRooms, uiVars, srvLine>>

\* controller setReady, lines 507-511, with SocketService.setPlayerReady
SetReady ==
  LET res == IF currentRoom # NoRoom /\ isConnected
               THEN SvcSetPlayerReady(SvcIsConnected) ELSE "none"
  IN /\ Emit("player_ready", res = "emit")
     /\ lastOp' = OpS("setReady", NULL, res, FALSE)
     /\ UNCHANGED <<busVars, svcVars, ctlVars, uiVars, srvLine>>

\* controller updateOpponentHealth, lines 514-535, with
\* SocketService.performGameAction
UpdateOpponentHealth ==
  LET target == IF isHost THEN currentRoom.guestId ELSE currentRoom.hostId
      res == IF currentRoom # NoRoom /\ isConnected /\ target # NULL
               THEN SvcPerformGameAction(SvcIsConnected) ELSE "none"
  IN /\ Emit("game_action", res = "emit")
     /\ lastOp' = OpS("updateOpponentHealth", NULL, res, FALSE)
     /\ UNCHANGED <<busVars, svcVars, ctlVars, uiVars, srvLine>>

\* controller endBattle, lines 538-546, with SocketService.performGameAction
EndBattle(w) ==
  LET res == IF currentRoom # NoRoom /\ isConnected
               THEN SvcPerformGameAction(SvcIsConnected) ELSE "none"
  IN /\ Emit("game_action", res = "emit")
     /\ lastOp' = OpS("endBattle", w, res, FALSE)
     /\ UNCHANGED <<busVars, svcVars, ctlVars, uiVars, srvLine>>

\* SocketService.sendChatMessage called on the exported singleton
SendChatMessage(rid, msg) ==
  /\ Emit("chat_message", SvcSendChatMessage(SvcIsConnected, rid, msg) = "emit")
  /\ lastOp' = OpS("sendChatMessage", rid, SvcSendChatMessage(SvcIsConnected, rid, msg), FALSE)
  /\ UNCHANGED <<busVars, svcVars, ctlVars, uiVars, srvLine>>

\* ------------------------------------------------------ JoinRoom screen
\* handleJoinRoom, part_000 lines 85-115; the form is rendered only while
\* !joining (line 186)
handleJoinRoom(roomCode) ==
  /\ ~joining
  /\ IF Trim(roomCode) = ""
       THEN /\ joinError' = "enter a room code"
            /\ lastOp' = Op("handleJoinRoom", roomCode, FALSE, FALSE)
            /\ UNCHANGED <<svcVars, ctlVars, inflight, joining, joinTimers>>
       ELSE /\ Len(joinTimers) < MaxTimers
            /\ JoinRoomBody(Trim(roomCode), TRUE)
            /\ joinTimers' = Append(joinTimers, joining)
            /\ lastOp' = Op("handleJoinRoom", roomCode, JoinEmits(Trim(roomCode)), FALSE)
  /\ UNCHANGED <<busVars, creating, createError, createTimers, roomId, srvLine>>

\* handleJoinSpecificRoom, part_000 lines 117-143, for a listed room
handleJoinSpecificRoom(k) ==
  /\ ~joining
  /\ k \in 1..Len(availableRooms)
  /\ Len(joinTimers) < MaxTimers
  /\ JoinRoomBody(availableRooms[k].id, TRUE)
  /\ joinTimers' = Append(joinTimers, joining)
  /\ lastOp' = Op("handleJoinSpecificRoom", availableRooms[k].id,
                  JoinEmits(availableRooms[k].id), FALSE)
  /\ UNCHANGED <<busVars, creating, createError, createTimers, roomId, srvLine>>

\* the 5 s timeout armed by handleJoinRoom fires, part_000 lines 107-112;
\* `joining` is the value of the render that armed it
JoinTimeout ==
  /\ Len(joinTimers) > 0
  /\ joinTimers' = Tail(joinTimers)
  /\ joining' = IF Head(joinTimers) THEN FALSE ELSE joining
  /\ joinError' = IF Head(joinTimers) THEN "timeout" ELSE joinError
  /\ lastOp' = Op("join_timeout", NULL, FALSE, FALSE)
  /\ UNCHANGED <<busVars, svcVars, ctlVars, inflight, creating, createError, createTimers,
                 roomId, srvLine>>

\* ---------------------------------------------------- CreateRoom screen
\* handleCreateRoom, part_001 lines 75-118; the form is rendered while
\* !roomId and its button is disabled while creating (lines 161, 198)
handleCreateRoom ==
  /\ roomId = "" /\ ~creating
  /\ Len(createTimers) < MaxTimers
  /\ Emit("create_room", CreateResult = "emit")
  /\ creating' = (CreateResult = "emit")
  /\ createError' = IF CreateResult = "emit" THEN NULL ELSE "error"
  /\ roomId' = IF CreateResult = "threw" THEN roomId ELSE "TEMP"
  /\ createTimers' = Append(createTimers, [creating |-> creating, roomId |-> roomId])
  /\ lastOp' = Op("handleCreateRoom", NULL, CreateResult = "emit", FALSE)
  /\ UNCHANGED <<busVars, svcVars, ctlVars, joining, joinError, joinTimers, srvLine>>

\* the 5 s timeout armed by handleCreateRoom fires, part_001 lines 110-115
CreateTimeout ==
  /\ Len(createTimers) > 0
  /\ createTimers' = Tail(createTimers)
  /\ LET t == Head(createTimers)
         hit == t.creating /\ t.roomId = ""
     IN /\ creating' = IF hit THEN FALSE ELSE creating
        /\ createError' = IF hit THEN "timeout" ELSE createError
  /\ lastOp' = Op("create_timeout", NULL, FALSE, FALSE)
  /\ UNCHANGED <<busVars, svcVars, ctlVars, inflight, joining, joinError, joinTimers,
                 roomId, srvLine>>

\* ---------------------------------------------------------------- Next
\* connection establishment, with the ids and directory snapshots the
\* server may send
Establish(ids, snaps) ==
  \/ Connect
  \/ \E i \in Calls, s \in ids : SockConnect(i, s)
  \/ \E i \in Calls, p \in ids : ConnectionSuccess(i, p)
  \/ \E i \in Calls, rooms \in snaps : RoomsFetched(i, rooms)

Drops ==
  \/ Disconnect
  \/ \E i \in Calls, reason \in Reasons : SockDisconnect(i, reason)

Failures ==
  \/ \E i \in Calls : ConnectionSuccess(i, NULL)
  \/ \E i \in Calls : ConnectError(i)
  \/ \E i \in Calls : ConnectTimeout(i)

Directory ==
  \/ \E i \in Calls, data \in DirEntries : RoomAvailable(i, data)
  \/ \E i \in Calls, rid \in RoomIds : RoomUnavailable(i, rid)

JoinScreen ==
  \/ \E code \in {"R1", " "} : handleJoinRoom(code)
  \/ \E k \in 1..Len(availableRooms) : handleJoinSpecificRoom(k)
  \/ JoinTimeout
  \/ \E i \in Calls : RoomJoined(i, "R1", "P2")
  \/ \E i \in Calls : JoinRoomError(i)

CreateScreen ==
  \/ handleCreateRoom
  \/ CreateTimeout
  \/ \E i \in Calls : RoomCreated(i, "R1")
  \/ \E i \in Calls : CreateRoomError(i)

\* GET /api/rooms: the lists the server answers with
OneRoom == {<<>>, <<[id |-> "R1", ver |-> 1]>>}

\* the directory under connects, overlapping connects and disconnects
NextDir == Establish({"P1"}, OneRoom) \/ Disconnect \/ Directory
SpecDir == Init /\ [][NextDir]_vars

\* joining: the controller's joinRoom, the JoinRoom screen, the replies
NextJoin ==
  \/ Establish({"P1"}, OneRoom) \/ Drops
  \/ \E rid \in {"R1", " "} : JoinRoom(rid)
  \/ JoinScreen
SpecJoin == Init /\ [][NextJoin]_vars

\* the join and create screens with their timeouts
NextScreens == Establish({"P1"}, OneRoom) \/ Disconnect \/ JoinScreen \/ CreateScreen
SpecScreens == Init /\ [][NextScreens]_vars

\* the other guarded operations and the replies that answer them
NextGuard ==
  \/ Establish({"P1"}, {<<>>})
  \/ CreateRoom
  \/ LeaveRoom
  \/ SelectCharacter("mage")
  \/ SetReady
  \/ \E i \in Calls : RoomCreated(i, "R1")
  \/ \E i \in Calls : CharacterSelected(i, "P1", "mage")
  \/ \E i \in Calls : PlayerReadyUpdated(i, "P1")
SpecGuard == Init /\ [][NextGuard]_vars

\* a room's life as the server narrates it: the session events; the
\* server ends a game once
NextRoom ==
  \/ Establish({"P1"}, {<<>>})
  \/ \E i \in Calls : SockDisconnect(i, "transport close")
  \/ CreateRoom
  \/ \E i \in Calls : RoomCreated(i, "R1")
  \/ \E i \in Calls : PlayerJoined(i, "R1", "P2")
  \/ \E i \in Calls, p \in {"P2", "P3"} : CharacterSelected(i, p, "mage")
  \/ \E i \in Calls : PlayerLeft(i, "P2")
  \/ \E i \in Calls : GameStarted(i, StartedRoom("R1", "P1", "P2"))
  \/ \E i \in Calls : GameActionPerformed(i, 1, "P2", MaxLine \div 2)
  \/ \E i \in Calls : currentRoom.status # "completed" /\ GameOver(i, "P1")
SpecRoom == Init /\ [][NextRoom]_vars

\* the battle log alone, filled a few lines at a time; the server ends a
\* game once
NextLog ==
  \/ Establish({"P1"}, {<<>>})
  \/ \E i \in Calls : SockDisconnect(i, "transport close")
  \/ CreateRoom
  \/ \E i \in Calls : RoomCreated(i, "R1")
  \/ \E i \in Calls : GameActionPerformed(i, 1, "P2", MaxNewLines)
  \/ \E i \in Calls : currentRoom.status # "completed" /\ GameOver(i, "P1")
SpecLog == Init /\ [][NextLog]_vars

\* the transport alone: connecting, failing, timing out, dropping
NextConn == Establish(ClientIds, {<<>>}) \/ Drops \/ Failures
SpecConn == Init /\ [][NextConn]_vars

\* every outbound operation, on a socket that connects and drops, with
\* fewer than MaxInflight requests unanswered in all
Outstanding(f) ==
  f["create_room"] + f["join_room"] + f["leave_room"] + f["select_character"]
    + f["player_ready"] + f["game_action"] + f["chat_message"]
OutSteps ==
  \/ Establish({"P1"}, {<<>>})
  \/ \E i \in Calls : SockDisconnect(i, "transport close")
  \/ CreateRoom
  \/ \E rid \in {"R1", " "} : JoinRoom(rid)
  \/ LeaveRoom
  \/ \E ch \in {"mage", NULL} : SelectCharacter(ch)
  \/ SetReady
  \/ UpdateOpponentHealth
  \/ EndBattle("P1")
  \/ \E rid \in {"R1", ""}, msg \in {"hi", " "} : SendChatMessage(rid, msg)
  \/ \E i \in Calls : RoomJoined(i, "R1", "P2")
NextOut == OutSteps /\ Outstanding(inflight') < MaxInflight
SpecOut == Init /\ [][NextOut]_vars

\* joinRoom on a controller that is not connected, with connects that fail
NextJoinFail ==
  \/ Establish({"P1"}, {<<>>})
  \/ Failures
  \/ JoinRoom("R1")
SpecJoinFail == Init /\ [][NextJoinFail]_vars

\* the roster of one room: players joining and leaving, the host included
NextRoster ==
  \/ Establish({"P1"}, {<<>>})
  \/ \E i \in Calls : SockDisconnect(i, "transport close")
  \/ CreateRoom
  \/ \E i \in Calls : RoomCreated(i, "R1")
  \/ \E i \in Calls, p \in {"P2", "P3"} : PlayerJoined(i, "R1", p)
  \/ \E i \in Calls, p \in Players : PlayerLeft(i, p)
SpecRoster == Init /\ [][NextRoster]_vars

\* the end of a game: game_over, at most MaxOvers times, and the events
\* that may follow it
Overs == Len(SelectSeq(currentRoom.gameData.battleLog, LAMBDA l : l >= WinsLine(NULL)))
NextOver ==
  \/ Establish({"P1"}, {<<>>})
  \/ \E i \in Calls : SockDisconnect(i, "transport close")
  \/ CreateRoom
  \/ \E i \in Calls : RoomCreated(i, "R1")
  \/ \E i \in Calls : GameStarted(i, StartedRoom("R1", "P1", "P2"))
  \/ \E i \in Calls : GameActionPerformed(i, 1, "P2", MaxLine \div 2)
  \/ \E i \in Calls : RoomUpdated(i, JoinedRoom("R1", "P1", "P2"))
  \/ \E i \in Calls, w \in {"P1", "P2"} : Overs < MaxOvers /\ GameOver(i, w)
SpecOver == Init /\ [][NextOver]_vars

\* one game as the server narrates it, turn by turn, to P1 who joined
\* P2's room R1: any turnCount up to MaxTurn and either player's turn, in
\* any order
NextGame ==
  \/ Establish({"P1"}, {<<>>})
  \/ \E i \in Calls : SockDisconnect(i, "transport close")
  \/ JoinRoom("R1")
  \/ \E i \in Calls : RoomJoined(i, "R1", "P2")
  \/ \E i \in Calls : PlayerLeft(i, "P2")
  \/ \E i \in Calls : GameStarted(i, StartedRoom("R1", "P2", "P1"))
  \/ \E i \in Calls, tc \in 0..MaxTurn, ct \in {"P1", "P2"} : GameActionPerformed(i, tc, ct, 0)
  \/ \E i \in Calls : RoomUpdated(i, StartedRoom("R1", "P2", "P1"))
  \/ \E i \in Calls : Overs < MaxOvers /\ GameOver(i, "P1")
SpecGame == Init /\ [][NextGame]_vars

\* no request is waiting for its answer
Quiet == Outstanding(inflight) = 0

\* valid and invalid input: room codes that are blank or not, from the
\* controller and from the JoinRoom screen's form, and a character that is
\* missing or not, one request at a time
NextInput ==
  \/ Establish({"P1"}, {<<>>})
  \/ \E rid \in {"R1", " "} : Quiet /\ JoinRoom(rid)
  \/ \E code \in {"R1", " "} : Quiet /\ handleJoinRoom(code)
  \/ JoinTimeout
  \/ \E i \in Calls : RoomJoined(i, "R1", "P2")
  \/ \E ch \in {"mage", NULL} : Quiet /\ SelectCharacter(ch)
  \/ \E i \in Calls : CharacterSelected(i, "P1", "mage")
SpecInput == Init /\ [][NextInput]_vars

\* ================================================================ claims
Log == currentRoom.gameData.battleLog
InRoom == currentRoom # NoRoom

\* C1: calling joinRoom again while a join_room request is still unanswered
\* emits nothing, so at most one join_room is ever outstanding.
C1_OneJoinOutstanding == inflight["join_room"] <= 1

\* C2: for createRoom, leaveRoom, selectCharacter and setReady a call made
\* while a request of the same kind is outstanding emits nothing, so at most
\* one request of each kind is outstanding.
C2_OneOutstandingPerKind ==
  \A k \in {"create_room", "leave_room", "select_character", "player_ready"} :
    inflight[k] <= 1

\* C3: once the grace timeout of the latest join (create) request has fired,
\* the screen's joining (creating) flag is clear, whether or not a reply came.
C3_TimeoutClearsFlag ==
  /\ (lastOp.op = "join_timeout" /\ joinTimers = <<>>) => ~joining
  /\ (lastOp.op = "create_timeout" /\ createTimers = <<>>) => ~creating

UniqueIds(rooms) ==
  \A a, b \in 1..Len(rooms) : rooms[a].id = rooms[b].id => a = b

\* C4: the directory holds at most one entry per room id; right after a
\* room_available event that a listener heard, the entry of that id is the
\* event's payload; delivering any payload a second time changes nothing.
C4_DirectoryUpsert ==
  /\ UniqueIds(availableRooms)
  /\ (lastOp.op = "room_available" /\ lastOp.heard > 0) =>
       /\ IndexOf(availableRooms, lastOp.data.id) > 0
       /\ availableRooms[IndexOf(availableRooms, lastOp.data.id)] = lastOp.data
  /\ \A data \in DirEntries :
       UpsertRoom(UpsertRoom(availableRooms, data), data) = UpsertRoom(availableRooms, data)

\* C4 witness: a heard room_available replaced the first of two entries in
\* place, on a socket that carries two listener sets.
C4_Witness ==
  /\ lastOp.op = "room_available" /\ lastOp.heard = 2
  /\ Len(availableRooms) = 2
  /\ availableRooms[1] = lastOp.data

\* C5: right after a game_action_performed event that carried lines and was
\* heard while in a room, the battle log has at most 20 entries and ends with
\* the lines the event carried, in order.
C5_LogEndsWithLatest ==
  (lastOp.op = "game_action_performed" /\ lastOp.heard > 0 /\ InRoom) =>
    /\ Len(Log) <= LogCap
    /\ Len(Log) >= 1
    /\ Log[Len(Log)] = srvLine
    /\ \A j \in 2..Len(Log) :
         (Log[j] > srvLine - lastOp.lines /\ Log[j - 1] > srvLine - lastOp.lines)
           => Log[j] = Log[j - 1] + 1 \/ Log[j - 1] = srvLine

\* C6: the session battle log never holds more than 20 entries.
C6_LogBounded == Len(Log) <= LogCap

\* C7: a player_left event for the room's guest unsets guestId, guestName and
\* guestCharacter, removes the guest from players and leaves the host's
\* fields alone.
C7_GuestLeft ==
  [][(/\ lastOp'.op = "player_left" /\ lastOp'.heard > 0
      /\ InRoom /\ currentRoom.guestId = lastOp'.arg)
     => /\ currentRoom'.guestId = NULL
        /\ currentRoom'.guestName = NULL
        /\ currentRoom'.guestCharacter = NULL
        /\ ~Includes(currentRoom'.players, lastOp'.arg)
        /\ currentRoom'.hostId = currentRoom.hostId
        /\ currentRoom'.hostName = currentRoom.hostName
        /\ currentRoom'.hostCharacter = currentRoom.hostCharacter]_vars

\* C8: a character_selected event for a player who is neither the room's
\* host nor its guest is not dropped: the room records that player's pick.
C8_UnknownPlayerRecorded ==
  [][(/\ lastOp'.op = "character_selected" /\ lastOp'.heard > 0
      /\ InRoom /\ lastOp'.arg \notin {currentRoom.hostId, currentRoom.guestId})
     => currentRoom' # currentRoom]_vars

\* C9: in the scenario (connected as P1; room_created R1 hosted by P1;
\* player_joined P2; game_started with turn 0 for P1; game_action_performed
\* with turn 1 for P2; game_over won by P1) each event, once heard, leaves
\* the session as the scenario says.
C9_Scenario ==
  /\ (lastOp.op = "room_created" /\ lastOp.heard > 0) =>
       isHost /\ currentRoom.players = <<"P1">>
  /\ (lastOp.op = "player_joined" /\ lastOp.heard > 0 /\ InRoom /\ currentRoom.hostId = "P1") =>
       currentRoom.players = <<"P1", "P2">>
  /\ (lastOp.op = "game_started" /\ lastOp.heard > 0 /\ InRoom) =>
       /\ currentRoom.status = "in-progress"
       /\ currentRoom.gameData.currentTurn = "P1"
  /\ (lastOp.op = "game_action_performed" /\ lastOp.heard > 0 /\ InRoom) =>
       /\ currentRoom.gameData.turnCount = 1
       /\ currentRoom.gameData.currentTurn = "P2"
  /\ (lastOp.op = "game_over" /\ lastOp.heard > 0 /\ InRoom) =>
       /\ currentRoom.gameData.winner = "P1"
       /\ currentRoom.status = "completed"

\* C10: once the 10 s connect timeout of a connect() call has fired, the call
\* has settled: resolved if connection_success came, rejected if not.
C10_TimeoutSettles ==
  \A i \in Calls : calls[i].timer = "fired" => calls[i].promise # "pending"

\* C11: automatic reconnection of a lost connection is tried at most 5 times,
\* and once the live socket of an established session has used up the 5
\* attempts the session either shows a connection error or no longer reports
\* itself connected.
C11_ReconnectExhaustedSurfaced ==
  /\ \A i \in Calls : calls[i].retries <= maxReconnectAttempts
  /\ (/\ socket # 0
      /\ calls[socket].promise = "resolved"
      /\ calls[socket].sock = "dead"
      /\ calls[socket].retries >= maxReconnectAttempts)
       => (connectionError # NULL \/ ~isConnected)

\* C12: right after a disconnect() the adapter holds no socket, isConnected()
\* is false and getPlayerId() is null, also when an earlier disconnect()
\* already ran.
C12_DisconnectClears ==
  lastOp.op = "disconnect" => (socket = 0 /\ ~SvcIsConnected /\ svcPlayerId = NULL)

\* C13: while the socket is not connected no step emits anything on the
\* transport, and a SocketService operation invoked then returns without
\* throwing.
C13_SilentWhenDown ==
  [][~SvcIsConnected =>
       /\ \A k \in ReqKinds : inflight'[k] <= inflight[k]
       /\ (lastOp'.svc # "none" => lastOp'.svc \in {"error", "skip"} /\ ~lastOp'.threw)]_vars

\* C13 witness: createRoom reached SocketService.createRoom on a dropped
\* socket; nothing was emitted and an error event was dispatched instead.
C13_Witness ==
  /\ lastOp.op = "createRoom" /\ lastOp.svc = "error"
  /\ ~SvcIsConnected /\ isConnected
  /\ \A k \in ReqKinds : inflight[k] = 0

\* C14: createRoom called while the controller is not connected does not
\* throw and starts a connect.
C14_CreateConnectsFirst ==
  [][(lastOp'.op = "createRoom" /\ ~isConnected) =>
       (~lastOp'.threw /\ Len(calls') = Len(calls) + 1)]_vars

\* C15: a join_room deferred behind a connect is emitted only when that
\* connect has succeeded; when the connect fails nothing is emitted and a
\* join_room_error reaches the observers.
C15_JoinAfterConnect ==
  [][\A i \in Calls :
       (calls[i].thenJoin # NULL /\ calls[i].pc # "done" /\ calls'[i].pc = "done") =>
         IF calls'[i].promise = "rejected"
           THEN inflight'["join_room"] = inflight["join_room"] /\ joinError' = "error"
           ELSE inflight'["join_room"] <= inflight["join_room"] + 1]_vars

\* C16: game_action is emitted only while the room's game is in progress;
\* before game_started and after game_over a game action emits nothing.
C16_ActionOnlyInGame ==
  [][inflight'["game_action"] > inflight["game_action"] =>
       currentRoom.status = "in-progress"]_vars

\* C17: right after the controller's disconnect() the session is idle:
\* not connected, no player id, no current room, an empty directory and
\* isHost false.
C17_DisconnectResets ==
  lastOp.op = "disconnect" =>
    /\ ~isConnected /\ playerId = NULL
    /\ currentRoom = NoRoom /\ availableRooms = <<>>
    /\ ~isHost

NoDuplicates(s) == \A a, b \in 1..Len(s) : s[a] = s[b] => a = b

\* C18: the current room's players list never holds a player twice and
\* never holds more than maxPlayers (2) players.
C18_RosterBounded ==
  InRoom => (NoDuplicates(currentRoom.players) /\ Len(currentRoom.players) <= maxPlayers)

\* C19: whenever the current room's players list is non-empty the host is
\* in it, and a guest that is set is in it and is not the host.
C19_RosterMembers ==
  (InRoom /\ currentRoom.players # <<>>) =>
    /\ Includes(currentRoom.players, currentRoom.hostId)
    /\ currentRoom.guestId # NULL =>
         (Includes(currentRoom.players, currentRoom.guestId)
            /\ currentRoom.guestId # currentRoom.hostId)

\* C20: once game_over has set the winner, no later game_over,
\* game_action_performed, room_updated or game_started changes or clears it
\* while the session stays in the room.
C20_WinnerTerminal ==
  [][(/\ InRoom /\ currentRoom.gameData.winner # NULL
      /\ lastOp'.op \in {"game_over", "game_action_performed", "room_updated", "game_started"}
      /\ currentRoom'.id = currentRoom.id)
       => currentRoom'.gameData.winner = currentRoom.gameData.winner]_vars

\* C21: while a game is in progress (game_started applied, game_over not
\* yet) the turn count is at least 0 and no game_action_performed or
\* room_updated event makes it smaller.
C21_TurnCountMonotone ==
  [][(/\ InRoom /\ currentRoom.status = "in-progress"
      /\ lastOp'.op \in {"game_action_performed", "room_updated"}
      /\ currentRoom'.status = "in-progress" /\ currentRoom'.id = currentRoom.id)
       => /\ currentRoom'.gameData.turnCount >= 0
          /\ currentRoom'.gameData.turnCount >= currentRoom.gameData.turnCount]_vars

\* C22: in every state with a current room, the player whose turn it is
\* (gameData.currentTurn) is unset or is one of the room's players.
C22_TurnHolderInRoom ==
  InRoom =>
    (currentRoom.gameData.currentTurn = NULL
       \/ Includes(currentRoom.players, currentRoom.gameData.currentTurn))

\* the host's seat: creating, joining, and host changes announced by
\* room_updated
NextHost ==
  \/ Establish({"P1"}, {<<>>})
  \/ \E i \in Calls : SockDisconnect(i, "transport close")
  \/ CreateRoom
  \/ \E i \in Calls : RoomCreated(i, "R1")
  \/ JoinRoom("R1")
  \/ \E i \in Calls : RoomJoined(i, "R1", "P2")
  \/ \E i \in Calls, h \in {"P1", "P2"} :
       RoomUpdated(i, JoinedRoom("R1", h, IF h = "P1" THEN "P2" ELSE "P1"))
SpecHost == Init /\ [][NextHost]_vars

\* C23: whenever the session has a current room, isHost is true exactly
\* when the room's hostId is the local player id.
C23_IsHostMatchesHostId ==
  InRoom => (isHost <=> currentRoom.hostId = playerId)

\* the guarded operations on a socket that may have dropped, each tried
\* while no request is unanswered, with the error replies of the server
NextReject ==
  \/ Establish({"P1"}, {<<>>})
  \/ \E i \in Calls : SockDisconnect(i, "transport close")
  \/ Quiet /\ CreateRoom
  \/ \E i \in Calls : RoomCreated(i, "R1")
  \/ \E i \in Calls : CreateRoomError(i)
  \/ \E rid \in {"R1", " "} : Quiet /\ JoinRoom(rid)
  \/ \E i \in Calls : JoinRoomError(i)
  \/ Quiet /\ LeaveRoom
  \/ \E ch \in {"mage", NULL} : Quiet /\ SelectCharacter(ch)
  \/ Quiet /\ SetReady
SpecReject == Init /\ [][NextReject]_vars

\* an operation the client started has just been turned down: it threw,
\* SocketService refused it (error event or logged return), or the server
\* answered with an error event
Turned ==
  \/ /\ lastOp'.op \in {"createRoom", "joinRoom", "leaveRoom", "selectCharacter", "setReady"}
     /\ (lastOp'.threw \/ lastOp'.svc \in {"error", "skip"})
  \/ lastOp'.op \in {"create_room_error", "join_room_error"}

\* C24: a createRoom, joinRoom, leaveRoom, selectCharacter or setReady that
\* is rejected leaves currentRoom, isHost and availableRooms as they were
\* before the attempt.
C24_RejectedLeavesState ==
  [][Turned => UNCHANGED <<currentRoom, isHost, availableRooms>>]_vars

\* C28: the directory is empty right after disconnect() and right after a
\* room_created or room_joined event has been applied.
C28_DirectoryCleared ==
  /\ lastOp.op = "disconnect" => availableRooms = <<>>
  /\ (lastOp.op \in {"room_created", "room_joined"} /\ lastOp.heard > 0 /\ InRoom)
       => availableRooms = <<>>

\* C29: right after a game_started event for the current room that a
\* listener heard, the room's turnCount, currentTurn and battleLog are the
\* payload's, the winner is unset and the game is in progress.
C29_GameStartedApplied ==
  (lastOp.op = "game_started" /\ lastOp.heard > 0 /\ InRoom /\ currentRoom.id = lastOp.arg) =>
    /\ currentRoom.gameData.turnCount = StartedRoom("R1", "P2", "P1").gameData.turnCount
    /\ currentRoom.gameData.currentTurn = StartedRoom("R1", "P2", "P1").gameData.currentTurn
    /\ currentRoom.gameData.battleLog = StartedRoom("R1", "P2", "P1").gameData.battleLog
    /\ currentRoom.gameData.winner = NULL
    /\ currentRoom.status = "in-progress"

\* C30: a game_over event heard while in a room sets the winner to the
\* event's winnerId, appends exactly one line naming the winner to the end
\* of the battle log and marks the room completed; turnCount, currentTurn,
\* players, hostId and guestId stay as they were.
C30_GameOverApplied ==
  [][(lastOp'.op = "game_over" /\ lastOp'.heard > 0 /\ InRoom) =>
       /\ currentRoom'.gameData.winner = lastOp'.arg
       /\ currentRoom'.gameData.battleLog = Append(Log, WinsLine(NameOf(lastOp'.arg)))
       /\ currentRoom'.status = "completed"
       /\ currentRoom'.gameData.turnCount = currentRoom.gameData.turnCount
       /\ currentRoom'.gameData.currentTurn = currentRoom.gameData.currentTurn
       /\ currentRoom'.players = currentRoom.players
       /\ currentRoom'.hostId = currentRoom.hostId
       /\ currentRoom'.guestId = currentRoom.guestId]_vars

\* ------------------------------------------------------ event dispatcher
\* SocketService.on / off for one application event, as any component may
\* call them on the exported singleton.  The file holds two live classes
\* named SocketService (lines 86-378 and 1095-1271); which of the two
\* singletons an importer gets is not decided by the source, so both are
\* followed: the first through `wrappers`, the second through `svc2`.

\* the handlers callers pass; "bad" throws when it is invoked
Handlers == {"h1", "h2", "bad"}
Throws(h) == h = "bad"

\* what is registered on a socket: the handler itself, or the arrow
\* function of lines 211-217 that calls it inside try/catch
Callback(h) == [kind |-> "callback", of |-> h]
Wrapper(h) == [kind |-> "wrapper", of |-> h]

\* an exception leaves a listener unless the listener catches it
Escapes(l) == l.kind = "callback" /\ Throws(l.of)

\* socket.io's emit to the listeners ls of an event: in registration
\* order, up to the first listener an exception leaves
EmitEvent(ls) ==
  LET stop == IF \E k \in 1..Len(ls) : Escapes(ls[k])
                THEN CHOOSE k \in 1..Len(ls) :
                       Escapes(ls[k]) /\ \A j \in 1..(k - 1) : ~Escapes(ls[j])
                ELSE 0
      n == IF stop = 0 THEN Len(ls) ELSE stop
  IN [invoked |-> [k \in 1..n |-> ls[k].of], escaped |-> stop # 0]

\* socket.off(event, fn) of socket.io: drops the listeners that are fn
SockOff(ls, fn) == SelectSeq(ls, LAMBDA l : l # fn)

\* SocketService.on, lines 204-218
On(h) ==
  /\ socket # 0 => Len(wrappers[socket]) < MaxWired
  /\ wrappers' = IF socket = 0 THEN wrappers
                 ELSE [wrappers EXCEPT ![socket] = Append(@, Wrapper(h))]
  /\ pending' = IF SvcIsConnected THEN pending ELSE pending \cup {h}
  /\ lastOp' = Op("on", h, FALSE, FALSE)
  /\ UNCHANGED <<svcVars, ctlVars, inflight, uiVars, srvLine, svc2, delivery>>

\* SocketService.off(event, callback), lines 223-231
Off(h) ==
  /\ wrappers' = IF socket = 0 THEN wrappers
                 ELSE [wrappers EXCEPT ![socket] = SockOff(@, Callback(h))]
  /\ pending' = pending \ {h}
  /\ lastOp' = Op("off", h, FALSE, FALSE)
  /\ UNCHANGED <<svcVars, ctlVars, inflight, uiVars, srvLine, svc2, delivery>>

\* SocketService.off(event), lines 223-231: socket.off(event) drops every
\* listener of the event
OffAll ==
  /\ wrappers' = IF socket = 0 THEN wrappers ELSE [wrappers EXCEPT ![socket] = <<>>]
  /\ pending' = {}
  /\ lastOp' = Op("off", NULL, FALSE, FALSE)
  /\ UNCHANGED <<svcVars, ctlVars, inflight, uiVars, srvLine, svc2, delivery>>

\* the server sends the event on socket i
Dispatch(i) ==
  /\ calls[i].sock = "connected"
  /\ delivery' = EmitEvent(wrappers[i])
  /\ lastOp' = Ev("dispatch", IF i = socket THEN "live" ELSE "replaced", Len(wrappers[i]))
  /\ UNCHANGED <<svcVars, ctlVars, inflight, uiVars, srvLine, wrappers, pending, svc2>>

\* on, off and deliveries on the sockets that connect() creates
NextOn ==
  \/ Establish({"P1"}, {<<>>})
  \/ \E h \in Handlers : On(h)
  \/ \E h \in Handlers : Off(h)
  \/ OffAll
  \/ \E i \in Calls : Dispatch(i)
SpecOn == Init /\ [][NextOn]_vars

\* ---- the second SocketService, lines 1095-1271
\* Set.prototype.add: insertion order, no duplicates
SetAdd(s, h) == IF Includes(s, h) THEN s ELSE Append(s, h)
\* Set.prototype.delete
SetDelete(s, h) == SelectSeq(s, LAMBDA x : x # h)

\* every listener that on() put on the socket runs
\* this.listeners.get(event)?.forEach(cb => cb(...args)), lines 1180-1183
Repeat(s, n) == [k \in 1..(n * Len(s)) |-> Callback(s[((k - 1) % Len(s)) + 1])]

\* connect(), lines 1103-1140: a new socket, with no listener of the event
Connect2 ==
  /\ svc2' = [svc2 EXCEPT !.socket = "connecting", !.wired = 0]
  /\ lastOp' = Op("connect2", NULL, FALSE, FALSE)
  /\ UNCHANGED <<svcVars, ctlVars, inflight, uiVars, srvLine, wrappers, pending, delivery>>

\* the socket's 'connect' event, lines 1116-1118
SockConnect2 ==
  /\ svc2.socket = "connecting"
  /\ svc2' = [svc2 EXCEPT !.socket = "connected"]
  /\ lastOp' = Op("sock_connect2", NULL, FALSE, FALSE)
  /\ UNCHANGED <<svcVars, ctlVars, inflight, uiVars, srvLine, wrappers, pending, delivery>>

\* on(event, callback), lines 1170-1184
On2(h) ==
  /\ svc2.socket # "null" => svc2.wired < MaxWired
  /\ svc2' = [svc2 EXCEPT
                !.listeners = SetAdd(@, h),
                !.wired = IF svc2.socket = "null" THEN @ ELSE @ + 1,
                !.pending = IF svc2.socket = "connected" THEN @ ELSE @ \cup {h}]
  /\ lastOp' = Op("on2", h, FALSE, FALSE)
  /\ UNCHANGED <<svcVars, ctlVars, inflight, uiVars, srvLine, wrappers, pending, delivery>>

\* off(event, callback), lines 1191-1199
Off2(h) ==
  /\ svc2' = [svc2 EXCEPT
                !.listeners = SetDelete(@, h),
                !.wired = IF SetDelete(svc2.listeners, h) = <<>> THEN 0 ELSE @,
                !.pending = @ \ {h}]
  /\ lastOp' = Op("off2", h, FALSE, FALSE)
  /\ UNCHANGED <<svcVars, ctlVars, inflight, uiVars, srvLine, wrappers, pending, delivery>>

\* the server sends the event on the second service's socket
Dispatch2 ==
  /\ svc2.socket = "connected"
  /\ delivery' = EmitEvent(Repeat(svc2.listeners, svc2.wired))
  /\ lastOp' = Ev("dispatch2", NULL, svc2.wired)
  /\ UNCHANGED <<svcVars, ctlVars, inflight, uiVars, srvLine, wrappers, pending, svc2>>

NextOn2 ==
  \/ Connect2
  \/ SockConnect2
  \/ \E h \in Handlers : On2(h)
  \/ \E h \in Handlers : Off2(h)
  \/ Dispatch2
SpecOn2 == Init /\ [][NextOn2]_vars

\* a delivery on a socket of the first service ran every registered handler
\* and let no exception out
Isolated ==
  lastOp'.op = "dispatch" =>
    /\ ~delivery'.escaped
    /\ \E i \in Calls :
         /\ Len(delivery'.invoked) = Len(wrappers[i])
         /\ \A k \in 1..Len(wrappers[i]) : delivery'.invoked[k] = wrappers[i][k].of

\* the same for the second service: every handler in its listeners set ran
Isolated2 ==
  (lastOp'.op = "dispatch2" /\ svc2.wired > 0) =>
    /\ ~delivery'.escaped
    /\ \A k \in 1..Len(svc2.listeners) : Includes(delivery'.invoked, svc2.listeners[k])

\* C25: in a delivery to several handlers of one event, a handler that
\* throws does not keep the other handlers from being invoked, and the
\* exception does not leave the dispatcher.
C25_HandlersIsolated == [][Isolated /\ Isolated2]_vars

\* C26: a handler passed to on() while the transport was not connected is
\* invoked by a delivery on the service's socket once that is connected,
\* without being registered again.
C26_EarlyHandlersRetained ==
  [][(lastOp'.op = "dispatch" /\ lastOp'.arg = "live") =>
       \A h \in pending : Includes(delivery'.invoked, h)]_vars

\* C27: off(event, handler) on a connected socket leaves a delivery
\* invoking exactly the handlers it invoked before except that handler, and
\* off(event) leaves a delivery invoking none.
C27_OffDeregisters ==
  [][(lastOp'.op = "off" /\ SvcIsConnected) =>
       EmitEvent(wrappers'[socket]).invoked =
         IF lastOp'.arg = NULL THEN <<>>
         ELSE SelectSeq(EmitEvent(wrappers[socket]).invoked, LAMBDA x : x # lastOp'.arg)]_vars

\* C31: a game_action_performed event changes nothing of the session but
\* gameData.turnCount, gameData.currentTurn and gameData.battleLog of the
\* current room: id, hostId, guestId, names, characters, status, players,
\* maxPlayers, startTime, endTime and winner are what they were, and so are
\* isHost, playerId and the directory (RoomData, lines 9-31, holds no health
\* or mana, and the handler writes none).
C31_ActionFrame ==
  [][lastOp'.op = "game_action_performed" =>
       /\ [currentRoom' EXCEPT !.gameData.turnCount = 0,
                               !.gameData.currentTurn = NULL,
                               !.gameData.battleLog = <<>>]
            = [currentRoom EXCEPT !.gameData.turnCount = 0,
                                  !.gameData.currentTurn = NULL,
                                  !.gameData.battleLog = <<>>]
       /\ UNCHANGED <<isHost, playerId, availableRooms>>]_vars

\* a delivered game_action_performed has been applied to a game in progress:
\* its turn, its turn holder and its lines are in the room
C31_Witness ==
  /\ lastOp.op = "game_action_performed" /\ lastOp.heard > 0 /\ lastOp.lines > 0
  /\ currentRoom.status = "in-progress"
  /\ currentRoom.gameData.startTime # NULL
  /\ currentRoom.gameData.turnCount = 1
  /\ currentRoom.gameData.currentTurn = "P2"
  /\ Len(currentRoom.gameData.battleLog) > lastOp.lines

\* C32: a player_left event heard for a player of the room while the game
\* is in progress and has no winner removes that player from the roster,
\* adds one line to the battle log, and leaves winner null and the status
\* other than completed.
C32_DepartureLogged ==
  [][(/\ lastOp'.op = "player_left" /\ lastOp'.heard > 0
      /\ InRoom /\ currentRoom.status = "in-progress"
      /\ currentRoom.gameData.winner = NULL
      /\ Includes(currentRoom.players, lastOp'.arg))
       => /\ ~Includes(currentRoom'.players, lastOp'.arg)
          /\ Len(currentRoom'.gameData.battleLog) = Len(Log) + 1
          /\ currentRoom'.gameData.winner = NULL
          /\ currentRoom'.status # "completed"]_vars

C34_EventsApplied ==
  [][(InRoom /\ currentRoom.id = "R1" /\ lastOp'.heard > 0)
       => /\ lastOp'.op = "player_joined" => Includes(currentRoom'.players, lastOp'.arg)
          /\ lastOp'.op = "player_left" => ~Includes(currentRoom'.players, lastOp'.arg)
          /\ (lastOp'.op = "character_selected" /\ lastOp'.arg = currentRoom.guestId)
               => currentRoom'.guestCharacter = "mage"
          /\ lastOp'.op = "game_started" => currentRoom'.status = "in-progress"
          /\ lastOp'.op = "game_action_performed"
               => currentRoom'.gameData.currentTurn = lastOp'.arg
          /\ lastOp'.op = "game_over" => currentRoom'.status = "completed"]_vars

\* C35: under any sequence of controller connect() and disconnect() calls,
\* overlapping ones included, the live socket carries at most one set of
\* the controller's listeners, and an inbound event is heard by at most one.
C35_OneListenerSet ==
  /\ socket # 0 => Len(calls[socket].listeners) <= 1
  /\ lastOp.heard <= 1

\* C36: at most one socket created by SocketService.connect is open
\* (connecting, connected or reconnecting) at any time.
C36_OneTransport ==
  Cardinality({i \in Calls : calls[i].sock \in {"connecting", "connected", "reconnecting"}}) <= 1

\* C37: whenever the controller's isConnected is true, the transport's
\* isConnected() is true.
C37_ConnectedAgrees == isConnected => SvcIsConnected

\* C38: whenever the controller is connected, its playerId is the
\* transport's getPlayerId().
C38_PlayerIdAgrees == isConnected => playerId = svcPlayerId

\* C39: when the GET /api/rooms snapshot of a connect() is applied right
\* after a room_available or room_unavailable event that the registered
\* listeners heard, the directory still reflects the event: the room of the
\* upsert is listed, the removed room is not.
C39_EventSurvivesSnapshot ==
  [][lastOp'.op = "rooms_fetched" =>
       /\ (lastOp.op = "room_available" /\ lastOp.heard > 0)
            => IndexOf(availableRooms', lastOp.arg) > 0
       /\ (lastOp.op = "room_unavailable" /\ lastOp.heard > 0)
            => IndexOf(availableRooms', lastOp.arg) = 0]_vars

\* C40: the promise of a transport connect() is rejected by a
\* connect_error only when that connect()'s own socket has had
\* maxReconnectAttempts connection errors.
C40_FullBudget ==
  [][\A i \in Calls :
       (/\ lastOp'.op = "connect_error"
        /\ calls[i].promise = "pending" /\ calls'[i].promise = "rejected")
         => calls'[i].retries + 1 >= maxReconnectAttempts]_vars

====
